---------------------------- MODULE Spec2Model ----------------------------
(***************************************************************************)
(* A model of the CambioTrack dashboard component (src/project/src/App.tsx): *)
(* the refresh scheduler around fetchExchangeRates, the normalisation of a *)
(* quote response into rate records, the synthetic history generator, the  *)
(* alert list and the currency converter.                                   *)
(*                                                                         *)
(* JavaScript numbers are modelled as exact rationals extended with NaN    *)
(* and Infinity; binary rounding error (about 1e-16 relative) is not       *)
(* modelled, so toFixed ties are decided on the exact value.               *)
(* State updates made by one event handler, or by one continuation of the  *)
(* async fetch, are applied together (React batches them), and the history *)
(* effect that a committed change of its dependencies triggers is part of  *)
(* the same step.                                                          *)
(***************************************************************************)
EXTENDS Integers, Sequences, FiniteSets, TLC

VARIABLES
    mounted,          \* the component is mounted (state updates take effect)
    interval,         \* the 5-minute setInterval timer is armed
    pending,          \* number of axios.get requests issued and not settled
    rates,            \* useState<ExchangeRate[]>
    lastUpdate,       \* useState<Date | null>: <<>> or <<unix seconds>>
    error,            \* useState<string | null>: <<>> or <<message>>
    loading,          \* useState(true)
    selectedCurrency, \* useState('USD')
    timeRange,        \* useState('7d')
    historicalData,   \* useState<HistoricalData[]>
    alerts,           \* useState<Alert[]>
    alertForm,        \* useState({currency, targetRate, type})
    convertAmount,    \* useState<string>('')
    convertFrom,      \* useState('USD')
    convertTo,        \* useState('BRL')
    showConverter,    \* useState(false)
    ev                \* history variable: the event that produced this state

vars == <<mounted, interval, pending, rates, lastUpdate, error, loading,
          selectedCurrency, timeRange, historicalData, alerts, alertForm,
          convertAmount, convertFrom, convertTo, showConverter, ev>>

schedulerVars == <<mounted, interval, pending, rates, lastUpdate, error, loading>>
chartVars == <<selectedCurrency, timeRange, historicalData>>
alertVars == <<alerts, alertForm>>
converterVars == <<convertAmount, convertFrom, convertTo, showConverter>>

----------------------------------------------------------------------------
(* Bounds of the model.                                                    *)

\* At most this many requests are in flight at once.
MaxPending == 2
\* The alert list is explored up to this length.
MaxAlerts == 3

----------------------------------------------------------------------------
(* JavaScript values: null, and numbers.                                   *)

None == <<>>
Some(x) == <<x>>

RECURSIVE GCD(_, _)
GCD(a, b) == IF b = 0 THEN a ELSE GCD(b, a % b)

Abs(n) == IF n < 0 THEN -n ELSE n

\* The finite number n/d (d # 0), in lowest terms with a positive denominator.
Num(n, d) ==
    LET g == GCD(Abs(n), Abs(d))
        s == IF d < 0 THEN -1 ELSE 1
    IN  [k |-> "num", n |-> (s * n) \div g, d |-> (s * d) \div g]

NaN == [k |-> "nan", n |-> 0, d |-> 1]
Infinity == [k |-> "inf", n |-> 1, d |-> 1]
NegInfinity == [k |-> "inf", n |-> -1, d |-> 1]
\* A property that is absent from an object.
Undefined == [k |-> "undefined", n |-> 0, d |-> 1]

Sign(x) == IF x.n > 0 THEN 1 ELSE IF x.n < 0 THEN -1 ELSE 0
Inf(s) == IF s < 0 THEN NegInfinity ELSE Infinity

\* ToNumber applied to an operand of an arithmetic operator.
ToNum(x) == IF x.k = "undefined" THEN NaN ELSE x

\* x + y
Add(x0, y0) ==
    LET x == ToNum(x0)
        y == ToNum(y0)
    IN  IF x.k = "nan" \/ y.k = "nan" THEN NaN
        ELSE IF x.k = "inf" /\ y.k = "inf"
             THEN IF x.n = y.n THEN x ELSE NaN
        ELSE IF x.k = "inf" THEN x
        ELSE IF y.k = "inf" THEN y
        ELSE Num(x.n * y.d + y.n * x.d, x.d * y.d)

\* x * y
Mul(x0, y0) ==
    LET x == ToNum(x0)
        y == ToNum(y0)
    IN  IF x.k = "nan" \/ y.k = "nan" THEN NaN
        ELSE IF x.k = "inf" \/ y.k = "inf"
             THEN IF Sign(x) * Sign(y) = 0 THEN NaN ELSE Inf(Sign(x) * Sign(y))
        ELSE Num(x.n * y.n, x.d * y.d)

\* x / y
Div(x0, y0) ==
    LET x == ToNum(x0)
        y == ToNum(y0)
    IN  IF x.k = "nan" \/ y.k = "nan" THEN NaN
        ELSE IF x.k = "inf" /\ y.k = "inf" THEN NaN
        ELSE IF x.k = "inf" THEN Inf(IF Sign(y) < 0 THEN -x.n ELSE x.n)
        ELSE IF y.k = "inf" THEN Num(0, 1)
        ELSE IF y.n = 0
             THEN IF x.n = 0 THEN NaN ELSE Inf(Sign(x))
        ELSE Num(x.n * y.d, x.d * y.n)

\* ToBoolean of a number-or-undefined: the left operand of  x || fallback.
Truthy(x) == x.k = "inf" \/ (x.k = "num" /\ x.n # 0)

\* x || fallback
OrElse(x, fallback) == IF Truthy(x) THEN x ELSE fallback

Digits == <<"0", "1", "2", "3", "4", "5", "6", "7", "8", "9">>

RECURSIVE Decimal(_)
\* The decimal digits of a natural number.
Decimal(n) ==
    IF n < 10 THEN Digits[n + 1] ELSE Decimal(n \div 10) \o Digits[(n % 10) + 1]

\* The integer c with c/100 nearest to |x|, the larger one on a tie
\* (Number.prototype.toFixed, step "let n be an integer for which
\* n / 10^f - x is as close to zero as possible").
Hundredths(x) == (200 * Abs(x.n) + x.d) \div (2 * x.d)

\* x.toFixed(2)
toFixed2(x) ==
    IF x.k = "nan" THEN "NaN"
    ELSE IF x.k = "inf" THEN (IF x.n < 0 THEN "-Infinity" ELSE "Infinity")
    ELSE LET c == Hundredths(x)
         IN  (IF x.n < 0 THEN "-" ELSE "") \o Decimal(c \div 100) \o "."
                 \o Digits[((c % 100) \div 10) + 1] \o Digits[(c % 10) + 1]

\* Number(x.toFixed(2))
NumberOfFixed2(x) ==
    IF x.k # "num" THEN x
    ELSE Num((IF x.n < 0 THEN -1 ELSE 1) * Hundredths(x), 100)

----------------------------------------------------------------------------
(* Constants of the program.                                               *)

SUPPORTED_CURRENCIES == <<"USD", "EUR", "GBP", "BRL">>

CURRENCY_SYMBOLS == [c \in {"USD", "EUR", "GBP", "BRL"} |->
    CASE c = "USD" -> "$" [] c = "EUR" -> "EUR-sign" [] c = "GBP" -> "GBP-sign"
      [] OTHER -> "R$"]

Codes == {SUPPORTED_CURRENCIES[i] : i \in 1..Len(SUPPORTED_CURRENCIES)}
TimeRanges == {"24h", "7d", "30d", "1y"}

----------------------------------------------------------------------------
(* The quote source: what one axios.get can settle with.                   *)

Quote(usd, eur, gbp) ==
    [c \in Codes |-> CASE c = "USD" -> usd [] c = "EUR" -> eur
                        [] c = "GBP" -> gbp [] OTHER -> Num(1, 1)]

\* The sample 'success' bodies: conversion_rates (foreign units per BRL) and
\* time_last_update_unix.  A quote whose inverses have two decimals, one
\* whose USD inverse is 16/3, one without a USD entry, and one whose EUR
\* entry is 0.
SampleQuotes ==
    { <<Quote(Num(1, 5), Num(4, 25), Num(1, 8)), 1700000000>>,
      <<Quote(Num(3, 16), Num(4, 25), Num(1, 8)), 1700003600>>,
      <<Quote(Undefined, Num(4, 25), Num(1, 8)), 1700000000>>,
      <<Quote(Num(1, 5), Num(0, 1), Num(1, 8)), 1700003600>> }

NoRates == [c \in Codes |-> Undefined]

\* settled |-> "fulfilled": a response body arrived; "rejected": axios threw
\* an Error with the given message.  has_rates = FALSE is a body without a
\* conversion_rates object.
Outcomes ==
    { [settled |-> "fulfilled", result |-> "success", has_rates |-> TRUE,
       conversion_rates |-> q[1], time_last_update_unix |-> q[2],
       message |-> ""] : q \in SampleQuotes }
    \cup
    { [settled |-> "fulfilled", result |-> "success", has_rates |-> FALSE,
       conversion_rates |-> NoRates, time_last_update_unix |-> 0, message |-> ""],
      [settled |-> "fulfilled", result |-> "error", has_rates |-> FALSE,
       conversion_rates |-> NoRates, time_last_update_unix |-> 0, message |-> ""],
      [settled |-> "rejected", result |-> "", has_rates |-> FALSE,
       conversion_rates |-> NoRates, time_last_update_unix |-> 0,
       message |-> "Network Error"],
      [settled |-> "rejected", result |-> "", has_rates |-> FALSE,
       conversion_rates |-> NoRates, time_last_update_unix |-> 0, message |-> ""] }

NoOutcome ==
    [settled |-> "none", result |-> "", has_rates |-> FALSE,
     conversion_rates |-> NoRates, time_last_update_unix |-> 0, message |-> ""]

----------------------------------------------------------------------------
(* fetchExchangeRates: normalisation of a response.                        *)

\* The record built for one currency.
RateRecord(currency, conversion_rates) ==
    [currency |-> currency,
     symbol |-> CURRENCY_SYMBOLS[currency],
     rate |-> IF currency = "BRL" THEN Num(1, 1)
              ELSE Div(Num(1, 1), conversion_rates[currency]),
     change |-> 0]

\* A variant that builds records only for the currencies the response has.
newRatesPresentOnly(conversion_rates) ==
    LET present == SelectSeq(SUPPORTED_CURRENCIES,
                             LAMBDA c : conversion_rates[c].k # "undefined")
    IN  [i \in 1..Len(present) |-> RateRecord(present[i], conversion_rates)]

\* SUPPORTED_CURRENCIES.map(currency => ({...}))
newRates(conversion_rates) ==
    [i \in 1..Len(SUPPORTED_CURRENCIES) |->
        RateRecord(SUPPORTED_CURRENCIES[i], conversion_rates)]

\* The try block ends in the catch block: axios rejected, the body's result
\* is not 'success', or conversion_rates is undefined and indexing it throws
\* a TypeError.
Throws(o) ==
    o.settled = "rejected" \/ o.result # "success" \/ ~o.has_rates

\* err.message of what the catch block receives.
errorMessage(o) ==
    IF o.settled = "rejected" THEN o.message
    ELSE IF o.result # "success" THEN "Failed to fetch exchange rates"
    ELSE "Cannot read properties of undefined (reading 'USD')"

\* A variant that shows the cause alone.
errorTextCauseOnly(cause) == cause

\* `Erro ao carregar taxas de cambio: ${errorMessage}`
errorText(cause) == "Erro ao carregar taxas de cambio: " \o cause

\* A variant that resets the flag after the try block only.
loadingAfterTryOnly(threw, current) == IF threw THEN current ELSE FALSE

\* finally { setLoading(false) }
loadingAfterSettle(threw, current) == FALSE

\* A variant of the effect cleanup that leaves the timer armed.
intervalLeftArmed(armed) == armed

\* return () => clearInterval(interval)
clearInterval(armed) == FALSE

----------------------------------------------------------------------------
(* The history effect.                                                     *)

\* Values Math.random() returns in the model, in [0, 1); a generation reads
\* them cyclically from a starting offset.
RandomSamples == <<Num(0, 1), Num(1, 2), Num(999, 1000)>>
Seeds == 0..(Len(RandomSamples) - 1)
\* Which sample the j-th call of a generation started at offset seed returns.
randomIndex(seed, j) == ((seed + j) % Len(RandomSamples)) + 1

days(range) ==
    IF range = "24h" THEN 1 ELSE IF range = "7d" THEN 7
    ELSE IF range = "30d" THEN 30 ELSE 365

\* rates.find(r => r.currency === code)?.rate
FindRate(rs, code) ==
    LET hits == SelectSeq(rs, LAMBDA r : r.currency = code)
    IN  IF hits = <<>> THEN Undefined ELSE hits[1].rate

baseRate(rs, currency) == OrElse(FindRate(rs, currency), Num(5, 1))

\* A variant with twice the spread.
randomVariationWide(r) == Mul(Add(r, Num(-1, 2)), Num(2, 5))

\* (Math.random() - 0.5) * 0.2
randomVariation(r) == Mul(Add(r, Num(-1, 2)), Num(1, 5))

\* A variant of the loop that stops before i = 0.
FirstIndexExclusive(n) == 1

\* for (let i = days; i >= 0; i--): the last value of i.
FirstIndex(n) == 0

\* The data array generateHistoricalData builds: point j has i = days - j + 1.
\* date records the format and the amount handed to subDays (i/24 or i days).
\* The rate of a point depends only on baseRate and on the value random()
\* returned for it, so the rounded sum is evaluated once per sample value.
generateHistoricalData(rs, currency, range, seed) ==
    LET n == days(range)
        lo == FirstIndex(n)
        base == baseRate(rs, currency)
        drawn == SubSeq([s \in 1..Len(RandomSamples) |->
                    NumberOfFixed2(Add(base, randomVariation(RandomSamples[s])))],
                    1, Len(RandomSamples))
    IN  [j \in 1..(n - lo + 1) |->
            LET i == n - j + 1
            IN  [date |-> IF range = "24h" THEN <<"HH:mm", i, 24>>
                          ELSE <<"dd/MM", i, 1>>,
                 rate |-> drawn[randomIndex(seed, j)]]]

\* The effect body, run when selectedCurrency, timeRange or rates changed.
HistoryEffect(rs, currency, range, changed) ==
    IF changed /\ Len(rs) > 0
    THEN \E seed \in Seeds :
            historicalData' = generateHistoricalData(rs, currency, range, seed)
    ELSE UNCHANGED historicalData

----------------------------------------------------------------------------
(* What is rendered decides which handlers the user can reach.             *)

LoadingScreen == loading /\ Len(rates) = 0
ErrorScreen == ~LoadingScreen /\ error # None
MainScreen == ~LoadingScreen /\ error = None

Event(kind, o, index) == [kind |-> kind, o |-> o, index |-> index]

----------------------------------------------------------------------------
(* The refresh scheduler.                                                  *)

\* fetchExchangeRates up to the await: the request is issued.
StartFetch ==
    /\ pending < MaxPending
    /\ pending' = pending + 1
    /\ IF mounted
       THEN loading' = TRUE /\ error' = None
       ELSE UNCHANGED <<loading, error>>
    /\ UNCHANGED <<mounted, interval, rates, lastUpdate>>
    /\ UNCHANGED <<chartVars, alertVars, converterVars>>

\* setInterval(fetchExchangeRates, 5 * 60 * 1000) fires.
Tick ==
    /\ interval
    /\ StartFetch
    /\ ev' = Event("tick", NoOutcome, 0)

\* "Tentar novamente" on the error screen.
Retry ==
    /\ mounted
    /\ ErrorScreen
    /\ StartFetch
    /\ ev' = Event("retry", NoOutcome, 0)

\* fetchExchangeRates after the await: one request settles with outcome o.
\* Updates of an unmounted component are dropped by React.
Settle(o) ==
    /\ pending > 0
    /\ pending' = pending - 1
    /\ IF ~mounted
       THEN /\ UNCHANGED <<rates, lastUpdate, error, loading, historicalData>>
            /\ ev' = Event("discarded", NoOutcome, 0)
       ELSE IF Throws(o)
       THEN /\ error' = Some(errorText(errorMessage(o)))
            /\ loading' = loadingAfterSettle(TRUE, loading)
            /\ UNCHANGED <<rates, lastUpdate, historicalData>>
            /\ ev' = Event("failed", o, 0)
       ELSE /\ rates' = newRates(o.conversion_rates)
            /\ lastUpdate' = Some(o.time_last_update_unix)
            /\ loading' = loadingAfterSettle(FALSE, loading)
            /\ UNCHANGED error
            /\ HistoryEffect(rates', selectedCurrency, timeRange, TRUE)
            /\ ev' = Event("succeeded", o, 0)
    /\ UNCHANGED <<mounted, interval, selectedCurrency, timeRange>>
    /\ UNCHANGED <<alertVars, converterVars>>

\* The component is unmounted: the effect cleanup runs.
Unmount ==
    /\ mounted
    /\ mounted' = FALSE
    /\ interval' = clearInterval(interval)
    /\ ev' = Event("unmount", NoOutcome, 0)
    /\ UNCHANGED <<pending, rates, lastUpdate, error, loading>>
    /\ UNCHANGED <<chartVars, alertVars, converterVars>>

\* onClick={() => setSelectedCurrency(rate.currency)} on a rate card.
SelectCurrency(c) ==
    /\ mounted
    /\ MainScreen
    /\ \E i \in 1..Len(rates) : rates[i].currency = c
    /\ selectedCurrency' = c
    /\ HistoryEffect(rates, c, timeRange, c # selectedCurrency)
    /\ ev' = Event("selectCurrency", NoOutcome, 0)
    /\ UNCHANGED <<schedulerVars, timeRange, alertVars, converterVars>>

\* onClick={() => setTimeRange(range)}
SelectRange(r) ==
    /\ mounted
    /\ MainScreen
    /\ timeRange' = r
    /\ HistoryEffect(rates, selectedCurrency, r, r # timeRange)
    /\ ev' = Event("selectRange", NoOutcome, 0)
    /\ UNCHANGED <<schedulerVars, selectedCurrency, alertVars, converterVars>>

----------------------------------------------------------------------------
(* User input.                                                             *)

\* Values of the two type="number" inputs: '' or a valid number string.
AmountInputs == {"", "0", "10", "100", "1.005", "-2.5"}
TargetInputs == {"", "5.50"}

\* Number(s) for the sample input strings.
Number(s) ==
    CASE s = "" -> Num(0, 1)
      [] s = "0" -> Num(0, 1)
      [] s = "10" -> Num(10, 1)
      [] s = "100" -> Num(100, 1)
      [] s = "1.005" -> Num(1005, 1000)
      [] s = "-2.5" -> Num(-5, 2)
      [] s = "5.50" -> Num(11, 2)
      [] OTHER -> NaN

\* The <option>s rendered from rates.map(rate => rate.currency).
RateOptions == {rates[i].currency : i \in 1..Len(rates)}

----------------------------------------------------------------------------
(* The alert list.                                                         *)

\* A variant that drops every rule equal to the one at the index.
alertsWithoutEqual(as, index) == SelectSeq(as, LAMBDA a : a # as[index + 1])

\* alerts.filter((_, i) => i !== index)
alertsWithout(as, index) ==
    LET kept[k \in 0..Len(as)] ==
            IF k = 0 THEN <<>>
            ELSE IF (k - 1) # index THEN Append(kept[k - 1], as[k])
            ELSE kept[k - 1]
    IN  kept[Len(as)]

\* onChange of the three alert form fields.
SetAlertForm(field, value) ==
    /\ mounted
    /\ MainScreen
    /\ \/ field = "currency" /\ value \in RateOptions
       \/ field = "type" /\ value \in {"above", "below"}
       \/ field = "targetRate" /\ value \in TargetInputs
    /\ alertForm' = [alertForm EXCEPT ![field] = value]
    /\ ev' = Event("setAlertForm", NoOutcome, 0)
    /\ UNCHANGED <<schedulerVars, chartVars, alerts, converterVars>>

\* "Criar Alerta"
handleCreateAlert ==
    /\ mounted
    /\ MainScreen
    /\ Len(alerts) < MaxAlerts
    /\ IF alertForm.targetRate # ""
       THEN /\ alerts' = Append(alerts,
                    [currency |-> alertForm.currency,
                     targetRate |-> Number(alertForm.targetRate),
                     type |-> alertForm.type])
            /\ alertForm' = [alertForm EXCEPT !.targetRate = ""]
       ELSE UNCHANGED <<alerts, alertForm>>
    /\ ev' = Event("createAlert", NoOutcome, 0)
    /\ UNCHANGED <<schedulerVars, chartVars, converterVars>>

\* "Remover" on the alert rendered at position index.
RemoveAlert(index) ==
    /\ mounted
    /\ MainScreen
    /\ index \in 0..(Len(alerts) - 1)
    /\ alerts' = alertsWithout(alerts, index)
    /\ ev' = Event("removeAlert", NoOutcome, index)
    /\ UNCHANGED <<schedulerVars, chartVars, alertForm, converterVars>>

----------------------------------------------------------------------------
(* The converter.                                                          *)

\* onClick={() => setShowConverter(!showConverter)}
ToggleConverter ==
    /\ mounted
    /\ MainScreen
    /\ showConverter' = ~showConverter
    /\ ev' = Event("toggleConverter", NoOutcome, 0)
    /\ UNCHANGED <<schedulerVars, chartVars, alertVars>>
    /\ UNCHANGED <<convertAmount, convertFrom, convertTo>>

SetConvertAmount(s) ==
    /\ mounted
    /\ MainScreen
    /\ showConverter
    /\ convertAmount' = s
    /\ ev' = Event("setConvertAmount", NoOutcome, 0)
    /\ UNCHANGED <<schedulerVars, chartVars, alertVars>>
    /\ UNCHANGED <<convertFrom, convertTo, showConverter>>

SetConvertFrom(c) ==
    /\ mounted
    /\ MainScreen
    /\ showConverter
    /\ c \in RateOptions
    /\ convertFrom' = c
    /\ ev' = Event("setConvertFrom", NoOutcome, 0)
    /\ UNCHANGED <<schedulerVars, chartVars, alertVars>>
    /\ UNCHANGED <<convertAmount, convertTo, showConverter>>

SetConvertTo(c) ==
    /\ mounted
    /\ MainScreen
    /\ showConverter
    /\ c \in RateOptions
    /\ convertTo' = c
    /\ ev' = Event("setConvertTo", NoOutcome, 0)
    /\ UNCHANGED <<schedulerVars, chartVars, alertVars>>
    /\ UNCHANGED <<convertAmount, convertFrom, showConverter>>

\* The text rendered as the result of the conversion.
calculateConversion ==
    LET fromRate == OrElse(FindRate(rates, convertFrom), Num(1, 1))
        toRate == OrElse(FindRate(rates, convertTo), Num(1, 1))
        amount == Number(convertAmount)
    IN  IF Truthy(amount) /\ amount.k # "nan"
        THEN toFixed2(Div(Mul(amount, fromRate), toRate))
        ELSE "0.00"

----------------------------------------------------------------------------
(* Specifications.                                                         *)

\* The state after the first render and the mount effect: the first fetch
\* is in flight and the timer is armed.
Init ==
    /\ mounted = TRUE
    /\ interval = TRUE
    /\ pending = 1
    /\ rates = <<>>
    /\ lastUpdate = None
    /\ error = None
    /\ loading = TRUE
    /\ selectedCurrency = "USD"
    /\ timeRange = "7d"
    /\ historicalData = <<>>
    /\ alerts = <<>>
    /\ alertForm = [currency |-> "USD", targetRate |-> "", type |-> "above"]
    /\ convertAmount = ""
    /\ convertFrom = "USD"
    /\ convertTo = "BRL"
    /\ showConverter = FALSE
    /\ ev = Event("mount", NoOutcome, 0)

\* The state after the first fetch succeeded with a sample response: what
\* Init followed by Settle(o) gives, the history drawn from offset 0.
InitLoaded ==
    \E o \in {x \in Outcomes : ~Throws(x)} :
        /\ mounted = TRUE
        /\ interval = TRUE
        /\ pending = 0
        /\ rates = newRates(o.conversion_rates)
        /\ lastUpdate = Some(o.time_last_update_unix)
        /\ error = None
        /\ loading = loadingAfterSettle(FALSE, TRUE)
        /\ selectedCurrency = "USD"
        /\ timeRange = "7d"
        /\ historicalData = generateHistoricalData(rates, "USD", "7d", 0)
        /\ alerts = <<>>
        /\ alertForm = [currency |-> "USD", targetRate |-> "", type |-> "above"]
        /\ convertAmount = ""
        /\ convertFrom = "USD"
        /\ convertTo = "BRL"
        /\ showConverter = FALSE
        /\ ev = Event("succeeded", o, 0)

\* The refresh scheduler over the whole life of the component.
Next ==
    \/ Tick
    \/ Retry
    \/ \E o \in Outcomes : Settle(o)
    \/ Unmount

\* The mounted dashboard: fetches and the chart selections.
NextChart ==
    \/ Tick
    \/ Retry
    \/ \E o \in Outcomes : Settle(o)
    \/ \E c \in Codes : SelectCurrency(c)
    \/ \E r \in TimeRanges : SelectRange(r)

\* The alert form and list on the loaded dashboard.
NextAlerts ==
    \/ \E field \in {"currency", "type", "targetRate"} :
          \E value \in Codes \cup {"above", "below"} \cup TargetInputs :
             SetAlertForm(field, value)
    \/ handleCreateAlert
    \/ \E index \in 0..(MaxAlerts - 1) : RemoveAlert(index)

\* The converter on the loaded dashboard.
NextConverter ==
    \/ ToggleConverter
    \/ \E s \in AmountInputs : SetConvertAmount(s)
    \/ \E c \in Codes : SetConvertFrom(c)
    \/ \E c \in Codes : SetConvertTo(c)

Spec == Init /\ [][Next]_vars
SpecChart == Init /\ [][NextChart]_vars
SpecAlerts == InitLoaded /\ [][NextAlerts]_vars
SpecConverter == InitLoaded /\ [][NextConverter]_vars

----------------------------------------------------------------------------
(* Properties.                                                             *)

IsFinite(x) == x.k = "num"

\* x <= y on numbers that are not NaN.
Leq(x, y) ==
    IF x.k = "inf" THEN x.n < 0 \/ (y.k = "inf" /\ y.n > 0)
    ELSE IF y.k = "inf" THEN y.n > 0
    ELSE x.n * y.d <= y.n * x.d

NonHomeRatesPositive ==
    \A i \in 1..Len(rates) :
        rates[i].currency # "BRL" =>
            IsFinite(rates[i].rate) /\ rates[i].rate.n > 0

\* |x - centre| <= radius
Within(x, centre, radius) ==
    /\ Leq(Add(centre, Mul(Num(-1, 1), radius)), x)
    /\ Leq(x, Add(centre, radius))

\* baseRate of the displayed history: the one the effect last read.
ChartBase == baseRate(rates, selectedCurrency)

\* The rates of the points of the displayed history.
PointRates == {historicalData[j].rate : j \in 1..Len(historicalData)}

HasTwoDecimals(x) == IsFinite(x) /\ 100 % x.d = 0

\* C1: a fetch that fails after an earlier one succeeded leaves rates and
\* lastUpdate as they were before it settled and sets error to a non-empty
\* message.
C1_FailureKeepsSnapshot ==
    [][(ev'.kind = "failed" /\ rates # <<>>) =>
            /\ rates' = rates
            /\ lastUpdate' = lastUpdate
            /\ error' # None
            /\ error'[1] # ""]_vars

C1_Witness ==
    /\ ev.kind = "failed"
    /\ rates # <<>>
    /\ lastUpdate # None
    /\ error # None

\* C2: right after a fetch completes successfully, rates is the snapshot
\* normalised from that response, lastUpdate is the response's update time
\* and error is null, whatever the interleaving of fetches.
C2_SuccessClearsError ==
    ev.kind = "succeeded" =>
        /\ rates = newRates(ev.o.conversion_rates)
        /\ lastUpdate = Some(ev.o.time_last_update_unix)
        /\ error = None

\* C3: a 'success' response whose USD, EUR or GBP rate is missing or zero
\* is treated as a failure (snapshot retained, error set), so every
\* non-home record of the held snapshot has a strictly positive finite rate.
C3_InvalidRateIsFailure ==
    /\ NonHomeRatesPositive
    /\ (ev.kind = "succeeded" =>
            \A c \in Codes \ {"BRL"} : Truthy(ev.o.conversion_rates[c]))

\* C4: rates is empty or holds exactly one record per supported currency,
\* in the order USD, EUR, GBP, BRL, and the BRL record has rate 1.
C4_RecordSetComplete ==
    \/ rates = <<>>
    \/ /\ Len(rates) = 4
       /\ rates[1].currency = "USD"
       /\ rates[2].currency = "EUR"
       /\ rates[3].currency = "GBP"
       /\ rates[4].currency = "BRL"
       /\ rates[4].rate = Num(1, 1)

C4_Witness ==
    /\ ev.kind = "succeeded"
    /\ ev.o.conversion_rates["USD"].k = "undefined"
    /\ Len(rates) = 4

\* C5: while the dashboard is mounted, loading is true only if some fetch
\* has started and not yet settled.
C5_LoadingImpliesPending ==
    (mounted /\ loading) => pending > 0

C5_Witness ==
    /\ mounted
    /\ loading
    /\ pending = 2
    /\ rates # <<>>
    /\ ev.kind = "tick"

\* C6: once the dashboard is unmounted the timer is disarmed, no fetch
\* starts, and a fetch settling afterwards changes none of rates, error,
\* loading and lastUpdate.
C6_NothingAfterTeardown ==
    [][~mounted' =>
            /\ ~interval'
            /\ pending' <= pending
            /\ rates' = rates
            /\ error' = error
            /\ loading' = loading
            /\ lastUpdate' = lastUpdate]_vars

C6_Witness ==
    /\ ~mounted
    /\ ev.kind = "discarded"
    /\ loading
    /\ pending = 0

\* C7: removing index i of an alert list of length n gives the list of
\* length n-1 with exactly the element at position i deleted and the order
\* of the others kept; a list of one rule becomes empty on remove(0).
C7_RemoveByPosition ==
    [][ev'.kind = "removeAlert" =>
            LET i == ev'.index
            IN  /\ i \in 0..(Len(alerts) - 1)
                /\ Len(alerts') = Len(alerts) - 1
                /\ \A j \in 1..Len(alerts') :
                        alerts'[j] = alerts[IF j <= i THEN j ELSE j + 1]
                /\ (Len(alerts) = 1 => alerts' = <<>>)]_vars

\* A 3-item list lost its first rule, and an equal rule is still in it.
C7_Witness ==
    /\ ev.kind = "removeAlert"
    /\ ev.index = 0
    /\ Len(alerts) = 2
    /\ alerts[1] = alerts[2]

\* C8: the history shown for the active currency and range has exactly
\* N+1 points, N = 1, 7, 30, 365 for 24h, 7d, 30d, 1y, after any sequence
\* of selections and fetches.
C8_HistoryLength ==
    IF rates = <<>> THEN historicalData = <<>>
    ELSE Len(historicalData) =
            (CASE timeRange = "24h" -> 2 [] timeRange = "7d" -> 8
               [] timeRange = "30d" -> 31 [] OTHER -> 366)

C8_Witness ==
    /\ ev.kind = "selectRange"
    /\ timeRange = "1y"
    /\ selectedCurrency = "GBP"
    /\ Len(historicalData) = 366

\* C9 as stated: every point's rate lies within [baseRate - 0.1,
\* baseRate + 0.1].
C9_WithinTenth ==
    \A r \in PointRates : Within(r, ChartBase, Num(1, 10))

\* C9 as amended: every point's rate lies within [baseRate - 0.105,
\* baseRate + 0.105], and within [baseRate - 0.1, baseRate + 0.1] when
\* baseRate has at most two decimal places.
C9_WithinTenthPlusRounding ==
    \A r \in PointRates :
        /\ Within(r, ChartBase, Num(105, 1000))
        /\ HasTwoDecimals(ChartBase) => Within(r, ChartBase, Num(1, 10))

\* A history over a base rate with more than two decimals, holding a point
\* drawn at each end of the range of random().
C9_Witness ==
    /\ historicalData # <<>>
    /\ ~HasTwoDecimals(ChartBase)
    /\ NumberOfFixed2(Add(ChartBase, Num(-1, 10))) \in PointRates
    /\ NumberOfFixed2(Add(ChartBase, Num(499, 5000))) \in PointRates

\* The result C10 describes: "0.00" for an absent, non-numeric or zero
\* amount, else (amount * fromRate) / toRate to 2 decimals, each rate being
\* the held snapshot's rate for the code, or 1 when the code is not found.
ReferenceConversion ==
    LET found(code) == \E i \in 1..Len(rates) : rates[i].currency = code
        fromRate == IF found(convertFrom) THEN FindRate(rates, convertFrom)
                    ELSE Num(1, 1)
        toRate == IF found(convertTo) THEN FindRate(rates, convertTo)
                  ELSE Num(1, 1)
        amount == Number(convertAmount)
    IN  IF amount.k = "nan" \/ (amount.k = "num" /\ amount.n = 0) THEN "0.00"
        ELSE toFixed2(Div(Mul(amount, fromRate), toRate))

\* C10: calculateConversion returns the reference result, and converting a
\* currency to itself returns the amount.
C10_ConversionMatchesReference ==
    showConverter =>
        /\ calculateConversion = ReferenceConversion
        /\ (convertFrom = convertTo /\ Truthy(Number(convertAmount))) =>
                calculateConversion = toFixed2(Number(convertAmount))

=============================================================================
